---- MODULE Spec2Model ----
(***************************************************************************)
(* Model of setup.py of GroundingDINO: the accelerator toolchain probe     *)
(* (setup_cuda_env), the build planner (get_extensions), the requirements  *)
(* parser (parse_requirements), the version stamper (write_version_file)   *)
(* and the __main__ orchestration.                                         *)
(*                                                                         *)
(* Strings are sequences of symbols.  A symbol is one character, except    *)
(* that the multi-character literals the code searches for ("@git+",       *)
(* "#egg=") are single symbols.                                            *)
(***************************************************************************)
EXTENDS Integers, Sequences, FiniteSets, TLC

VARIABLES
    \* ---- host environment of the build planner -------------------------
    environ,            \* names set in os.environ
    whichOutcome,       \* what subprocess.check_output(["which","nvcc"]) does
    CUDA_HOME,          \* torch.utils.cpp_extension.CUDA_HOME, bound at import
    cuda_is_available,  \* torch.cuda.is_available()
    tree,               \* files below extensions_dir, in enumeration order
    probe,              \* what the last call of setup_cuda_env() did
    ext_modules,        \* value returned by get_extensions()
    pcExt,              \* position of get_extensions()
    \* ---- requirements parser: one stripped line ------------------------
    rawLine,            \* a line of a requirements file, as read
    lineOut,            \* what parse_require_file makes of that line
    \* ---- requirements parser: files and includes -----------------------
    fs,                 \* requirements files: name -> lines, or Missing
    stack,              \* active parse_require_file generators
    packages,           \* items collected by list(gen_packages_items())
    pcReq,              \* position of parse_requirements()
    reqError,           \* class of the exception that left parse_requirements()
    \* ---- version stamp and orchestration -------------------------------
    gitOutcome,         \* what the source-control lookup does
    openOk,             \* whether open(version_path, "w") succeeds
    versionFile,        \* lines of groundingdino/version.py
    requirements,       \* install_requires handed to setup()
    raisedBy,           \* step whose exception ended the try block, or "none"
    raisedKind,         \* class of that exception
    caught,             \* the except clause ran
    stdout,             \* diagnostics printed by the orchestration
    setup_success,
    exitStatus,         \* completion status of the process
    pcMain              \* position of the __main__ block

varsPlan == <<environ, whichOutcome, CUDA_HOME, cuda_is_available, tree,
              probe, ext_modules, pcExt>>
varsLine == <<rawLine, lineOut>>
varsReq  == <<fs, stack, packages, pcReq, reqError>>
varsMain == <<gitOutcome, openOk, versionFile, requirements,
              raisedBy, raisedKind, caught, stdout, setup_success,
              exitStatus, pcMain>>
vars == <<varsPlan, varsLine, varsReq, varsMain>>

(***************************************************************************)
(* Bounds                                                                  *)
(***************************************************************************)
MaxFiles == 2        \* files below the extension directory
MaxDepth == 2        \* deepest nesting of a source file below it

(***************************************************************************)
(* Generic helpers                                                         *)
(***************************************************************************)
SeqsUpTo(S, n) == UNION {[1..k -> S] : k \in 0..n}

Range(s) == {s[i] : i \in 1..Len(s)}

(***************************************************************************)
(* ToolchainProbe: setup_cuda_env()                                        *)
(***************************************************************************)
WhichOutcomes == {"found", "empty", "nonzero", "missing", "noexec"}

\* ret: "True" | "False" | "None" (fell off the end) | "raise" (an exception
\* left the function).  "nonzero" is CalledProcessError, a SubprocessError;
\* "missing" / "noexec" are FileNotFoundError / PermissionError, which are
\* OSError and are not matched by `except subprocess.SubprocessError`.
setup_cuda_env(env, which) ==
    IF "CUDA_HOME" \in env
    THEN [ret |-> "True", environ |-> env]
    ELSE CASE which = "found"   -> [ret |-> "True", environ |-> env \cup {"CUDA_HOME"}]
           [] which = "empty"   -> [ret |-> "None", environ |-> env]
           [] which = "nonzero" -> [ret |-> "False", environ |-> env]
           [] OTHER             -> [ret |-> "raise", environ |-> env]

(***************************************************************************)
(* BuildPlanner: get_extensions()                                          *)
(***************************************************************************)
Exts == {"cpp", "cu"}

\* A file below extensions_dir other than the entry point: depth 0 is the
\* directory itself, depth 1 one of its sub-directories, and so on.
Files == [depth : 0..MaxDepth, ext : Exts]

main_source == [depth |-> 0, ext |-> "vision.cpp"]

\* glob.glob(os.path.join(extensions_dir, "**", "*.<e>")) and
\* glob.glob(os.path.join(extensions_dir, "*.<e>")): glob is called without
\* recursive=True, so "**" matches exactly one directory level.
glob(t, d, e) == SelectSeq(t, LAMBDA f : f.depth = d /\ f.ext = e)

nvcc_flags == <<"-DCUDA_HAS_FP16=1", "-D__CUDA_NO_HALF_OPERATORS__",
                "-D__CUDA_NO_HALF_CONVERSIONS__", "-D__CUDA_NO_HALF2_OPERATORS__">>

Extension(kind, sources, macros, args) ==
    [extension |-> kind, name |-> "groundingdino._C", sources |-> sources,
     include_dirs |-> <<"extensions_dir">>, define_macros |-> macros,
     extra_compile_args |-> args]

\* The condition of line 97.
Accelerated(env, home, avail) ==
    home # "None" /\ (avail \/ "TORCH_CUDA_ARCH_LIST" \in env)

\* get_extensions() building the CPU-only module instead of returning [].
get_extensions_cpu(t, env, which, home, avail) ==
    LET sources     == <<main_source>> \o glob(t, 1, "cpp")
        source_cuda == glob(t, 1, "cu") \o glob(t, 0, "cu")
        p           == setup_cuda_env(env, which)
    IN  IF p.ret = "raise"
        THEN [raised |-> TRUE, probe |-> p.ret, environ |-> p.environ, ret |-> <<>>]
        ELSE IF Accelerated(p.environ, home, avail)
        THEN [raised |-> FALSE, probe |-> p.ret, environ |-> p.environ,
              ret |-> <<Extension("CUDAExtension", sources \o source_cuda,
                                  <<"WITH_CUDA">>,
                                  [cxx |-> <<>>, nvcc |-> nvcc_flags])>>]
        ELSE [raised |-> FALSE, probe |-> p.ret, environ |-> p.environ,
              ret |-> <<Extension("CppExtension", sources, <<"WITH_HIP">>,
                                  [cxx |-> <<>>, nvcc |-> <<>>])>>]

get_extensions(t, env, which, home, avail) ==
    LET sources     == <<main_source>> \o glob(t, 1, "cpp")
        source_cuda == glob(t, 1, "cu") \o glob(t, 0, "cu")
        p           == setup_cuda_env(env, which)
    IN  IF p.ret = "raise"
        THEN [raised |-> TRUE, probe |-> p.ret, environ |-> p.environ, ret |-> <<>>]
        ELSE IF Accelerated(p.environ, home, avail)
        THEN [raised |-> FALSE, probe |-> p.ret, environ |-> p.environ,
              ret |-> <<Extension("CUDAExtension", sources \o source_cuda,
                                  <<"WITH_CUDA">>,
                                  [cxx |-> <<>>, nvcc |-> nvcc_flags])>>]
        ELSE [raised |-> FALSE, probe |-> p.ret, environ |-> p.environ,
              ret |-> <<>>]

(***************************************************************************)
(* String operations of the requirements parser                            *)
(***************************************************************************)
Whitespace == {" ", "\n"}

Min(S) == CHOOSE x \in S : \A y \in S : x <= y
Max(S) == CHOOSE x \in S : \A y \in S : y <= x

Str(s) == SubSeq(s, 1, Len(s))

\* str.strip()
strip(s) ==
    LET keep == {i \in 1..Len(s) : s[i] \notin Whitespace}
    IN  IF keep = {} THEN <<>> ELSE SubSeq(s, Min(keep), Max(keep))

\* str.startswith(p)
startswith(s, p) == Len(s) >= Len(p) /\ SubSeq(s, 1, Len(p)) = p

Positions(s, c) == {i \in 1..Len(s) : s[i] = c}

\* str.split(c): the pieces between all the occurrences of c
RECURSIVE split(_, _)
split(s, c) ==
    IF Positions(s, c) = {}
    THEN <<Str(s)>>
    ELSE LET i == Min(Positions(s, c))
         IN  <<SubSeq(s, 1, i - 1)>> \o split(SubSeq(s, i + 1, Len(s)), c)

\* The alternative of (>=|==|>) that matches at position i, tried in that
\* order; <<>> when none does.
OpAt(s, i) ==
    IF i < Len(s) /\ s[i] = ">" /\ s[i + 1] = "=" THEN <<">", "=">>
    ELSE IF i < Len(s) /\ s[i] = "=" /\ s[i + 1] = "=" THEN <<"=", "=">>
    ELSE IF s[i] = ">" THEN <<">">>
    ELSE <<>>

\* re.split("(>=|==|>)", line, maxsplit=1): the leftmost match splits the line
\* into [before, operator, after]; without a match the line is the only part.
re_split(s) ==
    LET at == {i \in 1..Len(s) : OpAt(s, i) # <<>>}
    IN  IF at = {}
        THEN <<Str(s)>>
        ELSE LET i  == Min(at)
                 op == OpAt(s, i)
             IN  <<SubSeq(s, 1, i - 1), op, SubSeq(s, i + Len(op), Len(s))>>

(***************************************************************************)
(* RequirementsParser: the non-include branch of parse_line                *)
(***************************************************************************)
Info(line, package, hasVersion, op, version, hasPlatform, platform_deps) ==
    [line |-> line, package |-> package, hasVersion |-> hasVersion, op |-> op,
     version |-> version, hasPlatform |-> hasPlatform,
     platform_deps |-> platform_deps]

NoInfo == Info(<<>>, <<>>, FALSE, <<>>, <<>>, FALSE, <<>>)

Parsed(info) == [raised |-> "none", info |-> info]
Raised(exc)  == [raised |-> exc, info |-> NoInfo]

\* version, platform_deps = map(str.strip, rest.split(";")): the unpacking
\* needs exactly two pieces.
unpack_rest(rest) ==
    LET pieces == split(rest, ";")
    IN  IF Len(pieces) = 2
        THEN [raised |-> "none", version |-> strip(pieces[1]),
              platform_deps |-> strip(pieces[2])]
        ELSE [raised |-> "ValueError", version |-> <<>>, platform_deps |-> <<>>]

EditablePrefix == <<"-", "e", " ">>
IncludePrefix  == <<"-", "r", " ">>

\* Lines 147-169, for a stripped line that is not an include.
parse_info(line) ==
    IF startswith(line, EditablePrefix)
    THEN LET pieces == split(line, "#egg=")
         IN  IF Len(pieces) < 2
             THEN Raised("IndexError")
             ELSE Parsed(Info(line, pieces[2], FALSE, <<>>, <<>>, FALSE, <<>>))
    ELSE IF "@git+" \in Range(line)
    THEN Parsed(Info(line, line, FALSE, <<>>, <<>>, FALSE, <<>>))
    ELSE LET raw   == re_split(line)
             parts == [i \in 1..Len(raw) |-> strip(raw[i])]
         IN  IF Len(parts) = 1
             THEN Parsed(Info(line, parts[1], FALSE, <<>>, <<>>, FALSE, <<>>))
             ELSE LET op   == parts[2]
                      rest == parts[3]
                  IN  IF ";" \in Range(rest)
                      THEN LET u == unpack_rest(rest)
                           IN  IF u.raised # "none"
                               THEN Raised(u.raised)
                               ELSE Parsed(Info(line, parts[1], TRUE, op, u.version,
                                                TRUE, u.platform_deps))
                      ELSE Parsed(Info(line, parts[1], TRUE, op, rest, FALSE, <<>>))

\* Lines 182-190 with with_version=True on an interpreter other than 3.4:
\* the item gen_packages_items yields for one info.
item_of(info) ==
    info.package
        \o (IF info.hasVersion THEN info.op \o info.version ELSE <<>>)
        \o (IF info.hasPlatform THEN <<";">> \o info.platform_deps ELSE <<>>)

(***************************************************************************)
(* Values of the variables a specification does not use                    *)
(***************************************************************************)
IdlePlan ==
    /\ environ = {} /\ whichOutcome = "nonzero" /\ CUDA_HOME = "None"
    /\ cuda_is_available = FALSE /\ tree = <<>> /\ probe = "notcalled"
    /\ ext_modules = <<>> /\ pcExt = "idle"

IdleLine ==
    rawLine = <<>> /\ lineOut = [kind |-> "idle", raised |-> "none", info |-> NoInfo]

IdleReq ==
    /\ fs = <<>> /\ stack = <<>> /\ packages = <<>> /\ pcReq = "idle"
    /\ reqError = "none"

IdleMain ==
    /\ gitOutcome = "no_git_dir" /\ openOk = TRUE /\ versionFile = <<>>
    /\ requirements = <<>> /\ raisedBy = "none"
    /\ raisedKind = "none" /\ caught = FALSE /\ stdout = <<>>
    /\ setup_success = FALSE /\ exitStatus = -1 /\ pcMain = "idle"

(***************************************************************************)
(* SpecPlan: every host environment and source tree; the probe called on   *)
(* its own and the planner                                                 *)
(***************************************************************************)
InitPlanVars ==
    /\ environ \in SUBSET {"CUDA_HOME", "TORCH_CUDA_ARCH_LIST"}
    /\ whichOutcome \in WhichOutcomes
    /\ CUDA_HOME \in {"None", "path"}
    /\ cuda_is_available \in BOOLEAN
    /\ tree \in SeqsUpTo(Files, MaxFiles)
    /\ probe = "notcalled"
    /\ ext_modules = <<>>
    /\ pcExt = "start"

\* A call of setup_cuda_env() outside the planner.
SetupCudaEnv ==
    /\ pcExt = "start"
    /\ LET p == setup_cuda_env(environ, whichOutcome)
       IN  /\ probe' = p.ret
           /\ environ' = p.environ
    /\ UNCHANGED <<whichOutcome, CUDA_HOME, cuda_is_available, tree, ext_modules, pcExt>>
    /\ UNCHANGED <<varsLine, varsReq, varsMain>>

GetExtensions ==
    /\ pcExt = "start"
    /\ LET r == get_extensions(tree, environ, whichOutcome, CUDA_HOME, cuda_is_available)
       IN  /\ probe' = r.probe
           /\ environ' = r.environ
           /\ ext_modules' = r.ret
           /\ pcExt' = IF r.raised THEN "raised" ELSE "returned"
    /\ UNCHANGED <<whichOutcome, CUDA_HOME, cuda_is_available, tree>>
    /\ UNCHANGED <<varsLine, varsReq, varsMain>>

NextPlan == SetupCudaEnv \/ GetExtensions

InitPlan == InitPlanVars /\ IdleLine /\ IdleReq /\ IdleMain

SpecPlan == InitPlan /\ [][NextPlan]_vars

(***************************************************************************)
(* Claims about the probe and the planner (checked under SpecPlan)         *)
(***************************************************************************)
IsAcceleratedPlan ==
    /\ pcExt = "returned"
    /\ ext_modules # <<>>
    /\ ext_modules[1].extension = "CUDAExtension"

\* C1: the plan is Accelerated only if the probe called inside
\* get_extensions() reported present=true and (a GPU runtime is usable or
\* TORCH_CUDA_ARCH_LIST is set); with a not-present probe it never is.
C1_AcceleratedOnlyIfProbePresent ==
    IsAcceleratedPlan =>
        /\ probe = "True"
        /\ (cuda_is_available \/ "TORCH_CUDA_ARCH_LIST" \in environ)

\* C2: when the accelerated condition is false, get_extensions() returns the
\* empty plan: no extension module and no sources, whatever was collected.
C2_NoAcceleratorEmptyPlan ==
    (pcExt = "returned" /\ ~Accelerated(environ, CUDA_HOME, cuda_is_available))
        => ext_modules = <<>>

C2_Witness ==
    /\ pcExt = "returned"
    /\ ~Accelerated(environ, CUDA_HOME, cuda_is_available)
    /\ glob(tree, 1, "cpp") # <<>>
    /\ ext_modules = <<>>

AllOfExt(e) == SelectSeq(tree, LAMBDA f : f.ext = e)

IsPermutationOf(s, t) ==
    /\ Len(s) = Len(t)
    /\ \E p \in [1..Len(s) -> 1..Len(s)] :
          /\ \A i, j \in 1..Len(s) : p[i] = p[j] => i = j
          /\ \A i \in 1..Len(s) : s[i] = t[p[i]]

\* C3: with a usable accelerator the sources are vision.cpp, then every .cpp
\* file at any depth below the extension directory, then every .cu file at
\* any depth below it, and the macros hold WITH_CUDA.
C3_SourcesAllDepths ==
    IsAcceleratedPlan =>
        LET src  == ext_modules[1].sources
            ncpp == Len(AllOfExt("cpp"))
            ncu  == Len(AllOfExt("cu"))
        IN  /\ Len(src) = 1 + ncpp + ncu
            /\ src[1] = main_source
            /\ IsPermutationOf(SubSeq(src, 2, 1 + ncpp), AllOfExt("cpp"))
            /\ IsPermutationOf(SubSeq(src, 2 + ncpp, 1 + ncpp + ncu), AllOfExt("cu"))
            /\ "WITH_CUDA" \in Range(ext_modules[1].define_macros)

\* C4: with CUDA_HOME unset and no nvcc discoverable, setup_cuda_env()
\* returns a not-present result for every outcome of the lookup and no
\* exception leaves it.
C4_ProbeNeverRaises ==
    (probe # "notcalled" /\ "CUDA_HOME" \notin environ /\ whichOutcome # "found")
        => probe \in {"False", "None"}

(***************************************************************************)
(* SpecLine: parse_require_file on every single line over a small alphabet *)
(***************************************************************************)
MaxLineLen == 5

Alphabet == {"a", ">", "=", ";", " ", "#", "@git+"}

InitLineVars ==
    /\ rawLine \in SeqsUpTo(Alphabet, MaxLineLen)
    /\ lineOut = [kind |-> "unread", raised |-> "none", info |-> NoInfo]

\* Lines 173-177 for one line that is not an include.
ParseLine ==
    /\ lineOut.kind = "unread"
    /\ LET line == strip(rawLine)
       IN  /\ ~startswith(line, IncludePrefix)
           /\ lineOut' =
                IF line = <<>> \/ startswith(line, <<"#">>)
                THEN [kind |-> "skipped", raised |-> "none", info |-> NoInfo]
                ELSE LET r == parse_info(line)
                     IN  [kind |-> IF r.raised = "none" THEN "info" ELSE "raised",
                          raised |-> r.raised, info |-> r.info]
    /\ UNCHANGED rawLine
    /\ UNCHANGED <<varsPlan, varsReq, varsMain>>

NextLine == ParseLine

InitLine == IdlePlan /\ InitLineVars /\ IdleReq /\ IdleMain

SpecLine == InitLine /\ [][NextLine]_vars

\* The line of the claim: after stripping it is not blank, not a comment, not
\* an include, not a -e entry, holds no "@git+", and holds an operator whose
\* right part holds at least one ";".
C5_Line == strip(rawLine)

C5_OpPositions == {i \in 1..Len(C5_Line) : OpAt(C5_Line, i) # <<>>}

C5_Covered ==
    /\ C5_Line # <<>>
    /\ ~startswith(C5_Line, <<"#">>)
    /\ ~startswith(C5_Line, IncludePrefix)
    /\ ~startswith(C5_Line, EditablePrefix)
    /\ "@git+" \notin Range(C5_Line)
    /\ C5_OpPositions # {}
    /\ LET i == Min(C5_OpPositions)
       IN  \E j \in (i + Len(OpAt(C5_Line, i)))..Len(C5_Line) : C5_Line[j] = ";"

\* C5: such a line yields exactly one descriptor: the package is the trimmed
\* text left of the first operator, the version is (operator, trimmed text
\* between the operator and the ";"), the marker is everything after the ";",
\* trimmed; and the parser does not fail on it.
C5_MarkerSplit ==
    (lineOut.kind # "unread" /\ C5_Covered) =>
        LET i    == Min(C5_OpPositions)
            op   == OpAt(C5_Line, i)
            semi == Min({j \in (i + Len(op))..Len(C5_Line) : C5_Line[j] = ";"})
        IN  /\ lineOut.kind = "info"
            /\ lineOut.info.package = strip(SubSeq(C5_Line, 1, i - 1))
            /\ lineOut.info.hasVersion
            /\ lineOut.info.op = op
            /\ lineOut.info.version = strip(SubSeq(C5_Line, i + Len(op), semi - 1))
            /\ lineOut.info.hasPlatform
            /\ lineOut.info.platform_deps = strip(SubSeq(C5_Line, semi + 1, Len(C5_Line)))

(***************************************************************************)
(* RequirementsParser: parse_requirements over files with includes         *)
(***************************************************************************)
MaxLines == 3          \* lines of the file handed to parse_requirements
MaxIncLines == 2       \* lines of a file reached only through "-r"

\* Nested parse_require_file generators the interpreter lets run at once:
\* the depth at which its recursion limit raises RecursionError, scaled down.
RecursionLimit == 3

ReqRoot == <<"A">>     \* the fname handed to parse_requirements

FileNames == {<<"A">>, <<"B">>}

ReqLines ==
    { <<"-", "r", " ", "A">>, <<"-", "r", " ", "B">>,
      <<"a">>, <<" ", "b", " ", ">", "=", "1", ";", " ", "c">>,
      <<" ", "#", "a">> }

\* line.strip() of line 174 and the result of parse_line's non-include branch
\* for it, tabulated for the lines the files are made of.
LineTable ==
    [l \in ReqLines |-> [text |-> strip(l), parsed |-> parse_info(strip(l))]]

FileSystems ==
    UNION { {f \in [S -> SeqsUpTo(ReqLines, MaxLines)] :
                \A n \in S \ {ReqRoot} : Len(f[n]) <= MaxIncLines}
            : S \in SUBSET FileNames }

\* os.path.exists / a successful open()
exists(files, f) == f \in DOMAIN files

\* line.split(" ")[1]
include_target(line) == split(line, " ")[2]

Frame(lines) == [lines |-> lines, idx |-> 1]

ReqState(stk, pkgs, pc, err) ==
    [stack |-> stk, packages |-> pkgs, pc |-> pc, error |-> err]

ReqRaise(exc) == ReqState(<<>>, <<>>, "raised", exc)

\* A file that is already being expanded is not opened again.
PushFrameOnce(stk, lines) ==
    IF \E i \in 1..Len(stk) : stk[i].lines = lines
    THEN stk
    ELSE Append(stk, Frame(lines))

\* The included file's generator run after the including file is exhausted.
PushFrameDeferred(stk, lines) == <<Frame(lines)>> \o stk

\* for info in parse_require_file(target): yield info -- the included file's
\* generator runs to exhaustion before the including one resumes.
PushFrame(stk, lines) == Append(stk, Frame(lines))

\* gen_packages_items() opening the file without the exists() test.
gen_packages_items_noguard(files, fname) ==
    IF exists(files, fname)
    THEN ReqState(<<Frame(files[fname])>>, <<>>, "running", "none")
    ELSE ReqRaise("FileNotFoundError")

\* Lines 179-181: the start of gen_packages_items().
gen_packages_items(files, fname) ==
    IF exists(files, fname)
    THEN ReqState(<<Frame(files[fname])>>, <<>>, "running", "none")
    ELSE ReqState(<<>>, <<>>, "returned", "none")

\* What the innermost active generator does next.
StepKind(st) ==
    LET n == Len(st.stack)
    IN  IF n = 0 THEN "return"
        ELSE LET top == st.stack[n]
             IN  IF top.idx > Len(top.lines) THEN "pop"
                 ELSE LET line == LineTable[top.lines[top.idx]].text
                      IN  IF line = <<>> \/ startswith(line, <<"#">>) THEN "skip"
                          ELSE IF startswith(line, IncludePrefix) THEN "include"
                          ELSE "item"

\* One resumption of the generators of lines 139-177 and 181-191.
req_step(files, st) ==
    LET n    == Len(st.stack)
        top  == st.stack[n]
        line == LineTable[top.lines[top.idx]].text
        adv  == [st.stack EXCEPT ![n].idx = top.idx + 1]
        kind == StepKind(st)
    IN  CASE kind = "return"  -> [st EXCEPT !.pc = "returned"]
          [] kind = "pop"     -> [st EXCEPT !.stack = SubSeq(st.stack, 1, n - 1)]
          [] kind = "skip"    -> [st EXCEPT !.stack = adv]
          [] kind = "include" ->
                LET target == include_target(line)
                IN  IF n >= RecursionLimit THEN ReqRaise("RecursionError")
                    ELSE IF ~exists(files, target) THEN ReqRaise("FileNotFoundError")
                    ELSE [st EXCEPT !.stack = PushFrame(adv, files[target])]
          [] kind = "item"    ->
                LET r == LineTable[top.lines[top.idx]].parsed
                IN  IF r.raised # "none" THEN ReqRaise(r.raised)
                    ELSE [st EXCEPT !.stack = adv,
                                    !.packages = Append(@, item_of(r.info))]

RECURSIVE run(_, _)
run(files, st) == IF st.pc # "running" THEN st ELSE run(files, req_step(files, st))

\* parse_requirements(fname): list(gen_packages_items())
parse_requirements(files, fname) == run(files, gen_packages_items(files, fname))

(***************************************************************************)
(* SpecReq: parse_requirements(ReqRoot) on every small set of files        *)
(***************************************************************************)
InitReqVars ==
    /\ fs \in FileSystems
    /\ stack = <<>>
    /\ packages = <<>>
    /\ pcReq = "start"
    /\ reqError = "none"

CurrentReq == ReqState(stack, packages, pcReq, reqError)

BecomeReq(st) ==
    /\ stack' = st.stack
    /\ packages' = st.packages
    /\ pcReq' = st.pc
    /\ reqError' = st.error
    /\ UNCHANGED fs
    /\ UNCHANGED <<varsPlan, varsLine, varsMain>>

ReqCall ==
    /\ pcReq = "start"
    /\ BecomeReq(gen_packages_items(fs, ReqRoot))

\* A requirement line: one item appended, or the exception of parse_line.
ReqItem ==
    /\ pcReq = "running" /\ StepKind(CurrentReq) = "item"
    /\ BecomeReq(req_step(fs, CurrentReq))

\* A blank line or a comment.
ReqSkip ==
    /\ pcReq = "running" /\ StepKind(CurrentReq) = "skip"
    /\ BecomeReq(req_step(fs, CurrentReq))

\* A "-r " line: the referenced file is opened and its generator started.
ReqInclude ==
    /\ pcReq = "running" /\ StepKind(CurrentReq) = "include"
    /\ BecomeReq(req_step(fs, CurrentReq))

\* The innermost file is exhausted and closed.
ReqPop ==
    /\ pcReq = "running" /\ StepKind(CurrentReq) = "pop"
    /\ BecomeReq(req_step(fs, CurrentReq))

\* list(gen_packages_items()) is complete.
ReqReturn ==
    /\ pcReq = "running" /\ StepKind(CurrentReq) = "return"
    /\ BecomeReq(req_step(fs, CurrentReq))

NextReq == ReqCall \/ ReqItem \/ ReqSkip \/ ReqInclude \/ ReqPop \/ ReqReturn

InitReq == IdlePlan /\ IdleLine /\ InitReqVars /\ IdleMain

SpecReq == InitReq /\ [][NextReq]_vars

(***************************************************************************)
(* Claims about parse_requirements (checked under SpecReq)                 *)
(***************************************************************************)
IncludeTargets(files, f) ==
    IF ~exists(files, f) THEN {}
    ELSE {include_target(LineTable[files[f][i]].text) :
            i \in {k \in 1..Len(files[f]) :
                     startswith(LineTable[files[f][k]].text, IncludePrefix)}}

RECURSIVE ReachableIn(_, _, _)
ReachableIn(files, S, n) ==
    IF n = 0 THEN S
    ELSE ReachableIn(files, S \cup UNION {IncludeTargets(files, f) : f \in S}, n - 1)

\* Files reached from f through one or more includes.
IncludedFrom(files, f) ==
    ReachableIn(files, IncludeTargets(files, f), Cardinality(FileNames))

\* Some file reached from the root includes itself, directly or through others.
Cyclic(files, root) ==
    \E f \in {root} \cup IncludedFrom(files, root) : f \in IncludedFrom(files, f)

\* The depth-first pre-order flattening of the include tree below f.
RECURSIVE Flatten(_, _, _)
FlattenLine(files, line, fuel) ==
    IF line = <<>> \/ startswith(line, <<"#">>) THEN <<>>
    ELSE IF startswith(line, IncludePrefix)
    THEN IF fuel = 0 THEN <<>> ELSE Flatten(files, include_target(line), fuel - 1)
    ELSE <<item_of(parse_info(line).info)>>

RECURSIVE FlattenFrom(_, _, _, _)
FlattenFrom(files, lines, i, fuel) ==
    IF i > Len(lines) THEN <<>>
    ELSE FlattenLine(files, strip(lines[i]), fuel) \o FlattenFrom(files, lines, i + 1, fuel)

Flatten(files, f, fuel) ==
    IF ~exists(files, f) THEN <<>> ELSE FlattenFrom(files, files[f], 1, fuel)

\* C6: for an acyclic set of files the returned sequence is the depth-first
\* pre-order flattening of the include tree: an include is replaced in place
\* by the whole expansion of the referenced file, every other non-blank,
\* non-comment line yields one entry, nothing duplicated, dropped or reordered.
C6_DepthFirstPreOrder ==
    (pcReq = "returned" /\ exists(fs, ReqRoot) /\ ~Cyclic(fs, ReqRoot))
        => packages = Flatten(fs, ReqRoot, Cardinality(FileNames))

C6_Witness ==
    /\ pcReq = "returned"
    /\ fs = [n \in FileNames |->
               IF n = ReqRoot
               THEN << <<"a">>, <<"-", "r", " ", "B">>,
                       <<" ", "b", " ", ">", "=", "1", ";", " ", "c">> >>
               ELSE << <<" ", "b", " ", ">", "=", "1", ";", " ", "c">>, <<"a">> >>]
    /\ packages = << <<"a">>, <<"b", ">", "=", "1", ";", "c">>, <<"a">>,
                     <<"b", ">", "=", "1", ";", "c">> >>

\* C7: parse_requirements(fname) fails with NotFound whenever fname does not
\* exist; it never returns a list for a missing file.
C7_MissingFileRaises ==
    (pcReq \notin {"start", "running"} /\ ~exists(fs, ReqRoot))
        => (pcReq = "raised" /\ reqError = "FileNotFoundError")

\* C7 as amended: parse_requirements(fname) returns the empty list, and
\* raises nothing, whenever fname does not exist.
C7_MissingFileEmptyList ==
    (pcReq # "start" /\ ~exists(fs, ReqRoot))
        => (pcReq = "returned" /\ packages = <<>> /\ reqError = "none")

C7_Witness ==
    /\ ~exists(fs, ReqRoot)
    /\ exists(fs, <<"B">>)
    /\ pcReq = "returned"
    /\ packages = <<>>

\* Work left to the active generators: a natural number in which a frame
\* outweighs everything that can be nested inside it.
ReqWeight == MaxLines + 2

RECURSIVE Power(_, _)
Power(b, e) == IF e = 0 THEN 1 ELSE b * Power(b, e - 1)

RECURSIVE FrameWork(_, _)
FrameWork(stk, i) ==
    IF i > Len(stk) THEN 0
    ELSE (Len(stk[i].lines) - stk[i].idx + 2) * Power(ReqWeight, RecursionLimit - i)
         + FrameWork(stk, i + 1)

ReqMeasure ==
    CASE pcReq = "start"   -> Power(ReqWeight, RecursionLimit) + 2
      [] pcReq = "running" -> FrameWork(stack, 1) + 1
      [] OTHER             -> 0

version == <<"0.1.0">>

Unknown == <<"Unknown">>

\* What `git rev-parse HEAD` prints inside a checkout: the full revision
\* identifier and a newline.
HeadRevision == <<"4", "f", "a", "9">>
GitStdout    == HeadRevision \o <<"\n">>

GitOutcomes == {"no_git_dir", "git_missing", "nonzero", "undecodable", "ok"}

Assignment(name, value) == [name |-> name, value |-> value]

\* write_version_file() with the failure handler of setup_cuda_env: only a
\* SubprocessError is swallowed, so a missing git or undecodable output
\* leaves the function after the first line was written.
write_version_file_narrow(outcome, canOpen, old) ==
    IF ~canOpen
    THEN [raised |-> "OSError", file |-> old]
    ELSE IF outcome \in {"git_missing", "undecodable"}
    THEN [raised |-> "OSError", file |-> <<Assignment("__version__", version)>>]
    ELSE [raised |-> "none",
          file |-> <<Assignment("__version__", version),
                     Assignment("git_version",
                                IF outcome = "ok" THEN strip(GitStdout) ELSE Unknown)>>]

\* Lines 62-75.  open(version_path, "w") may fail; every Exception of the
\* lookup is swallowed and leaves sha = "Unknown".
write_version_file(outcome, canOpen, old) ==
    IF ~canOpen
    THEN [raised |-> "OSError", file |-> old]
    ELSE LET sha == IF outcome = "ok" THEN strip(GitStdout) ELSE Unknown
         IN  [raised |-> "none",
              file |-> <<Assignment("__version__", version),
                         Assignment("git_version", sha)>>]

(***************************************************************************)
(* The __main__ block                                                      *)
(***************************************************************************)
DefaultRequirements ==
    << <<"torch>=1.7.0">>, <<"torchvision>=0.8.0">> >>

StaleVersionFile ==
    <<Assignment("__version__", <<"0.0.9">>), Assignment("git_version", Unknown)>>

\* requirements.txt absent; well-formed; including a missing file; including
\* itself.
MainFileSystems ==
    { <<>>,
      [n \in {ReqRoot} |-> << <<"a">> >>],
      [n \in {ReqRoot} |-> << <<"-", "r", " ", "B">> >>],
      [n \in {ReqRoot} |-> << <<"-", "r", " ", "A">> >>] }

InitMainVars ==
    /\ gitOutcome \in GitOutcomes
    /\ openOk \in BOOLEAN
    /\ versionFile \in {<<>>, StaleVersionFile}
    /\ requirements = <<>>
    /\ raisedBy = "none"
    /\ raisedKind = "none"
    /\ caught = FALSE
    /\ stdout = <<"Building wheel">>
    /\ setup_success = FALSE
    /\ exitStatus = -1
    /\ pcMain = "start"

InitMain ==
    /\ environ \in SUBSET {"CUDA_HOME", "TORCH_CUDA_ARCH_LIST"}
    /\ whichOutcome \in WhichOutcomes
    /\ CUDA_HOME \in {"None", "path"}
    /\ cuda_is_available \in BOOLEAN
    /\ tree = <<>>
    /\ probe = "notcalled"
    /\ ext_modules = <<>>
    /\ pcExt = "idle"
    /\ IdleLine
    /\ fs \in MainFileSystems
    /\ stack = <<>> /\ packages = <<>> /\ pcReq = "idle" /\ reqError = "none"
    /\ InitMainVars

\* An exception of class Exception leaves a step inside the try block.
Throw(step) ==
    /\ raisedBy' = step
    /\ raisedKind' = "Exception"
    /\ pcMain' = "except"

\* Line 203.
MainStamp ==
    /\ pcMain = "start"
    /\ LET r == write_version_file(gitOutcome, openOk, versionFile)
       IN  /\ versionFile' = r.file
           /\ IF r.raised # "none"
              THEN Throw("write_version_file")
              ELSE pcMain' = "requirements" /\ UNCHANGED <<raisedBy, raisedKind>>
    /\ UNCHANGED <<gitOutcome, openOk, requirements, caught, stdout,
                   setup_success, exitStatus>>
    /\ UNCHANGED <<varsPlan, varsLine, varsReq>>

\* Lines 206-210.
MainRequirements ==
    /\ pcMain = "requirements"
    /\ IF exists(fs, ReqRoot)
       THEN LET r == parse_requirements(fs, ReqRoot)
            IN  IF r.pc = "raised"
                THEN Throw("parse_requirements") /\ UNCHANGED requirements
                ELSE /\ requirements' = r.packages
                     /\ pcMain' = "extensions"
                     /\ UNCHANGED <<raisedBy, raisedKind>>
       ELSE /\ requirements' = DefaultRequirements
            /\ pcMain' = "extensions"
            /\ UNCHANGED <<raisedBy, raisedKind>>
    /\ UNCHANGED <<gitOutcome, openOk, versionFile, caught, stdout,
                   setup_success, exitStatus>>
    /\ UNCHANGED <<varsPlan, varsLine, varsReq>>

\* Line 220: the argument of setup() is evaluated before the call.
MainGetExtensions ==
    /\ pcMain = "extensions"
    /\ LET r == get_extensions(tree, environ, whichOutcome, CUDA_HOME, cuda_is_available)
       IN  /\ probe' = r.probe
           /\ environ' = r.environ
           /\ ext_modules' = r.ret
           /\ IF r.raised
              THEN Throw("get_extensions")
              ELSE pcMain' = "setup" /\ UNCHANGED <<raisedBy, raisedKind>>
    /\ UNCHANGED <<whichOutcome, CUDA_HOME, cuda_is_available, tree, pcExt>>
    /\ UNCHANGED <<gitOutcome, openOk, versionFile, requirements, caught, stdout,
                   setup_success, exitStatus>>
    /\ UNCHANGED <<varsLine, varsReq>>

\* Lines 213-224: the opaque setup() call returns, raises an Exception, or
\* raises SystemExit (how distutils reports a failed command).  SystemExit is
\* not an Exception: `except Exception` does not match it, the rest of the
\* script is skipped and the interpreter ends with its status.
MainSetup ==
    /\ pcMain = "setup"
    /\ \E outcome \in {"ok", "Exception", "SystemExit"} :
          CASE outcome = "ok" ->
                  /\ pcMain' = "import"
                  /\ UNCHANGED <<raisedBy, raisedKind, exitStatus>>
            [] outcome = "Exception" ->
                  /\ Throw("setup")
                  /\ UNCHANGED exitStatus
            [] outcome = "SystemExit" ->
                  /\ raisedBy' = "setup"
                  /\ raisedKind' = "SystemExit"
                  /\ exitStatus' = 1
                  /\ pcMain' = "exited"
    /\ UNCHANGED <<gitOutcome, openOk, versionFile, requirements, caught, stdout,
                   setup_success>>
    /\ UNCHANGED <<varsPlan, varsLine, varsReq>>

\* Lines 227-238.
MainImport ==
    /\ pcMain = "import"
    /\ \E outcome \in {"ok", "no_C", "ImportError", "Exception"} :
          CASE outcome = "ok" ->
                  /\ stdout' = Append(stdout, "Successfully built with CUDA support")
                  /\ setup_success' = TRUE
                  /\ pcMain' = "after_try"
                  /\ UNCHANGED <<raisedBy, raisedKind>>
            [] outcome = "no_C" ->
                  /\ stdout' = Append(stdout, "Successfully built (CPU-only mode)")
                  /\ setup_success' = TRUE
                  /\ pcMain' = "after_try"
                  /\ UNCHANGED <<raisedBy, raisedKind>>
            [] outcome = "ImportError" ->
                  /\ stdout' = Append(stdout, "Warning: installed but cannot be imported")
                  /\ pcMain' = "after_try"
                  /\ UNCHANGED <<raisedBy, raisedKind, setup_success>>
            [] outcome = "Exception" ->
                  /\ Throw("import")
                  /\ UNCHANGED <<stdout, setup_success>>
    /\ UNCHANGED <<gitOutcome, openOk, versionFile, requirements, caught, exitStatus>>
    /\ UNCHANGED <<varsPlan, varsLine, varsReq>>

\* Lines 240-244.
MainExcept ==
    /\ pcMain = "except"
    /\ caught' = TRUE
    /\ stdout' = Append(stdout, "Error during setup")
    /\ pcMain' = "after_try"
    /\ UNCHANGED <<gitOutcome, openOk, versionFile, requirements, raisedBy,
                   raisedKind, setup_success, exitStatus>>
    /\ UNCHANGED <<varsPlan, varsLine, varsReq>>

\* Lines 246-252.
MainExit ==
    /\ pcMain = "after_try"
    /\ IF ~setup_success
       THEN /\ stdout' = Append(stdout, "setup did not complete successfully")
            /\ exitStatus' = 1
       ELSE /\ exitStatus' = 0
            /\ UNCHANGED stdout
    /\ pcMain' = "exited"
    /\ UNCHANGED <<gitOutcome, openOk, versionFile, requirements, raisedBy,
                   raisedKind, caught, setup_success>>
    /\ UNCHANGED <<varsPlan, varsLine, varsReq>>

NextMain ==
    \/ MainStamp \/ MainRequirements \/ MainGetExtensions \/ MainSetup
    \/ MainImport \/ MainExcept \/ MainExit

SpecMain == InitMain /\ [][NextMain]_vars

(***************************************************************************)
(* Claims about the stamp and the orchestration (checked under SpecMain)   *)
(***************************************************************************)
Stamped(revision) ==
    <<Assignment("__version__", version), Assignment("git_version", revision)>>

ExpectedRevision == IF gitOutcome = "ok" THEN HeadRevision ELSE Unknown

\* C8: whatever the source-control lookup does, write_version_file()
\* completes and the file holds exactly the version line followed by the
\* revision line; the revision is "Unknown" in every failing case and the
\* full HEAD revision when the lookup succeeds.
C8_StampNeverBlockedByLookup ==
    (pcMain # "start" /\ openOk) =>
        /\ raisedBy # "write_version_file"
        /\ versionFile = Stamped(ExpectedRevision)

C8_Witness ==
    /\ pcMain = "requirements"
    /\ gitOutcome = "git_missing"
    /\ versionFile = Stamped(Unknown)

\* C9: an exception raised by any step is caught at the orchestrator
\* boundary, a diagnostic is printed and the process ends with a non-zero
\* status; the status is zero only if every step completed without an
\* exception; a stamp written before the failing step stays written.
C9_EveryExceptionCaught ==
    pcMain = "exited" =>
        /\ raisedBy # "none" =>
              /\ caught
              /\ "Error during setup" \in Range(stdout)
              /\ exitStatus # 0
        /\ exitStatus = 0 => raisedBy = "none"
        /\ openOk => versionFile = Stamped(ExpectedRevision)

====
